---- MODULE Spec2Model ----
(***************************************************************************)
(* Model of the PDF viewer screen (src/src/screens/PdfViewerScreen.tsx):   *)
(* the lasso selection engine, the page analysis cycle (performOCR), the   *)
(* selection session state and the last-viewed-page persistence.           *)
(*                                                                         *)
(* React semantics used throughout: a handler or an async continuation     *)
(* reads the values of the render in which it was created (its closure)    *)
(* and queues state updates; the updates of one handler are applied        *)
(* together.  `s` is the committed component state; an analysis cycle in   *)
(* flight carries the closure of the render that started it.  The passive  *)
(* effect of lines 426-431 runs after a commit that changed one of its     *)
(* dependencies, before any other event is handled.                        *)
(***************************************************************************)
EXTENDS Integers, Sequences, FiniteSets

\* ------------------------------------------------------------------ bounds
MaxSaves == 2          \* saveCurrentPageState calls in flight at once
MaxPathPoints == 2     \* points of one stroke
MaxCommands == 3       \* commands of a path string given to the parser

\* The pages of the opened document (noOfPages of onPageChanged).
Pages == {1, 2}
noOfPages == Cardinality(Pages)

\* --------------------------------------------------------- basic helpers
Max2(a, b) == IF a >= b THEN a ELSE b
Min2(a, b) == IF a <= b THEN a ELSE b

\* The first element taken for the least
SeqMinFirst(q) == q[1]

RECURSIVE SeqMin(_)
SeqMin(q) == IF Len(q) = 1 THEN q[1] ELSE Min2(q[1], SeqMin(Tail(q)))

RECURSIVE SeqMax(_)
SeqMax(q) == IF Len(q) = 1 THEN q[1] ELSE Max2(q[1], SeqMax(Tail(q)))

\* A traversal that collects later entries first
RECURSIVE FlattenReversed(_)
FlattenReversed(qq) ==
  IF qq = <<>> THEN <<>> ELSE FlattenReversed(Tail(qq)) \o Head(qq)

RECURSIVE Flatten(_)
Flatten(qq) == IF qq = <<>> THEN <<>> ELSE Head(qq) \o Flatten(Tail(qq))

Includes(q, v) == \E i \in 1..Len(q) : q[i] = v

\* ------------------------------------------------------ path strings
\* A path string is modelled by its token list (the result of
\* trim().split(/[\s,]+/)): command letters, numbers and unparsable words.
CmdM == [t |-> "M", v |-> 0]
CmdL == [t |-> "L", v |-> 0]
Num(n) == [t |-> "num", v |-> n]
Junk == [t |-> "junk", v |-> 0]

EmptyPath == <<>>

\* `M ${locationX} ${locationY}`
MoveTo(x, y) == <<CmdM, Num(x), Num(y)>>
\* `${prevPath} L ${locationX} ${locationY}`
LineTo(prev, x, y) == prev \o <<CmdL, Num(x), Num(y)>>

\* parseFloat(token): NaN for anything that is not a number
IsNaN(tok) == tok.t # "num"

RECURSIVE ParseFrom(_, _)
ParseFrom(parts, i) ==
  IF i > Len(parts) THEN <<>>
  ELSE IF parts[i].t \in {"M", "L"} /\ i + 2 <= Len(parts)
       THEN (IF ~IsNaN(parts[i + 1]) /\ ~IsNaN(parts[i + 2])
             THEN <<[x |-> parts[i + 1].v, y |-> parts[i + 2].v]>>
             ELSE <<>>) \o ParseFrom(parts, i + 3)
       ELSE ParseFrom(parts, i + 1)

\* A parser that drops a point equal to the one before it
RECURSIVE DropRepeats(_)
DropRepeats(q) ==
  IF Len(q) < 2 THEN q
  ELSE IF q[1] = q[2] THEN DropRepeats(Tail(q))
  ELSE <<q[1]>> \o DropRepeats(Tail(q))

parseSvgPathDistinct(pathString) == DropRepeats(ParseFrom(pathString, 1))

parseSvgPath(pathString) == ParseFrom(pathString, 1)

\* ------------------------------------------------------ recognition data
\* A frame carries every field the code probes; an absent field is 0 (the
\* code reads them with `||`, which treats absent and 0 alike).
Frame(l, t, w, h) ==
  [left |-> l, top |-> t, x |-> 0, y |-> 0,
   width |-> w, height |-> h, right |-> 0, bottom |-> 0]

Word(txt, fr) == [text |-> txt, hasFrame |-> TRUE, frame |-> fr]

\* A frame given by its corners (left/top/right/bottom, no width/height)
FrameCorners(l, t, r, b) ==
  [left |-> l, top |-> t, x |-> 0, y |-> 0,
   width |-> 0, height |-> 0, right |-> r, bottom |-> b]

\* Sample pictures beyond the pages of the opened document: one with two
\* blocks, the first of two lines, and one with a word whose frame has no
\* width and a word whose frame is given by its corners.
TwoBlockSample == Cardinality(Pages) + 1
ThresholdSample == Cardinality(Pages) + 2

\* What the recognizer finds on a page: odd pages carry the two words of the
\* end-to-end scenario, even pages three words, the middle one without text.
PageBlocks(p) ==
  IF p = TwoBlockSample
  THEN << [lines |-> << [elements |->
                           << Word("A", Frame(0, 0, 100, 10)),
                              Word("B", Frame(200, 0, 100, 10)) >>],
                        [elements |->
                           << Word("C", Frame(0, 10, 100, 10)) >>] >>],
          [lines |-> << [elements |->
                           << Word("D", Frame(200, 10, 100, 10)) >>] >>] >>
  ELSE IF p = ThresholdSample
  THEN << [lines |-> << [elements |->
            << Word("Edge", Frame(0, 0, 100, 20)),
               Word("Dot", Frame(150, 0, 0, 20)),
               Word("Alt", FrameCorners(200, 0, 300, 20)) >>] >>] >>
  ELSE IF p % 2 = 1
  THEN << [lines |-> << [elements |->
            << Word("Hello", Frame(0, 0, 100, 20)),
               Word("World", Frame(200, 0, 100, 20)) >>] >>] >>
  ELSE << [lines |-> << [elements |->
            << Word("Foo", Frame(0, 0, 100, 20)),
               Word("", Frame(100, 0, 100, 20)),
               Word("Bar", Frame(200, 0, 100, 20)) >>] >>] >>

\* A RecognitionResult value: the page whose picture was recognized (0 for a
\* result without blocks).  NoResult is null.
NoResult == [page |-> 0, empty |-> TRUE]
TextResult(p) == [page |-> p, empty |-> FALSE]
EmptyResult == [page |-> 0, empty |-> FALSE]
Blocks(r) == IF r.page = 0 THEN <<>> ELSE PageBlocks(r.page)

\* ------------------------------------------------------ frame reading
FrameX(f) == IF f.left # 0 THEN f.left ELSE IF f.x # 0 THEN f.x ELSE 0
FrameY(f) == IF f.top # 0 THEN f.top ELSE IF f.y # 0 THEN f.y ELSE 0
\* A width read from `right` without taking x off
FrameWidthRight(f) ==
  IF f.width # 0 THEN f.width
  ELSE IF f.right # 0 THEN f.right ELSE 0

FrameWidth(f) ==
  IF f.width # 0 THEN f.width
  ELSE IF f.right # 0 THEN f.right - FrameX(f) ELSE 0
FrameHeight(f) ==
  IF f.height # 0 THEN f.height
  ELSE IF f.bottom # 0 THEN f.bottom - FrameY(f) ELSE 0

\* ------------------------------------------------------ coordinate mapper
\* scaleX = view.width / image.width, scaleY = view.height / image.height.
\* The mapped rectangle is kept as exact fractions in lowest terms: X values
\* over the denominator denX, Y values over denY (0 when the image dimension
\* is 0).
RECURSIVE GCD(_, _)
GCD(a, b) == IF b = 0 THEN a ELSE GCD(b, a % b)

\* A mapper with one scale, that of the X axis, for both axes
mapCoordinatesUniform(view, image, x, y, width, height) ==
  LET gx == GCD(view.width, image.width)
      numX == view.width \div gx
  IN [x |-> x * numX, y |-> y * numX,
      width |-> width * numX, height |-> height * numX,
      denX |-> image.width \div gx, denY |-> image.width \div gx]

mapCoordinates(view, image, x, y, width, height) ==
  LET gx == GCD(view.width, image.width)
      gy == GCD(view.height, image.height)
      numX == view.width \div gx
      numY == view.height \div gy
  IN [x |-> x * numX, y |-> y * numY,
      width |-> width * numX, height |-> height * numY,
      denX |-> image.width \div gx, denY |-> image.height \div gy]

\* ------------------------------------------------------ overlap engine
OVERLAP_THRESHOLD == 40

\* overlapPercentage >= OVERLAP_THRESHOLD for one word, computed as
\* calculateOverlapArea does on the word's four corners and the path's
\* points.  Path coordinates are brought to the mapper's denominators.
\* A zero image dimension makes the scale infinite: every comparison then
\* involves Infinity or NaN and the word is not selected; a word of zero
\* area gives 0/0 = NaN, which is not >= 40 either.
\* The comparison of line 309 made strict
OverlapSelectsStrict(m, pathPoints) ==
  IF m.denX = 0 \/ m.denY = 0 THEN FALSE
  ELSE
    LET pxs == [i \in 1..Len(pathPoints) |-> pathPoints[i].x * m.denX]
        pys == [i \in 1..Len(pathPoints) |-> pathPoints[i].y * m.denY]
        wxs == <<m.x, m.x + m.width, m.x, m.x + m.width>>
        wys == <<m.y, m.y, m.y + m.height, m.y + m.height>>
        overlapMinX == Max2(SeqMin(pxs), SeqMin(wxs))
        overlapMaxX == Min2(SeqMax(pxs), SeqMax(wxs))
        overlapMinY == Max2(SeqMin(pys), SeqMin(wys))
        overlapMaxY == Min2(SeqMax(pys), SeqMax(wys))
        overlapArea == (overlapMaxX - overlapMinX) * (overlapMaxY - overlapMinY)
        wordArea == (SeqMax(wxs) - SeqMin(wxs)) * (SeqMax(wys) - SeqMin(wys))
    IN IF overlapMaxX < overlapMinX \/ overlapMaxY < overlapMinY
       THEN 0 > OVERLAP_THRESHOLD
       ELSE wordArea # 0 /\ overlapArea * 100 > OVERLAP_THRESHOLD * wordArea

OverlapSelects(m, pathPoints) ==
  IF m.denX = 0 \/ m.denY = 0 THEN FALSE
  ELSE
    LET pxs == [i \in 1..Len(pathPoints) |-> pathPoints[i].x * m.denX]
        pys == [i \in 1..Len(pathPoints) |-> pathPoints[i].y * m.denY]
        wxs == <<m.x, m.x + m.width, m.x, m.x + m.width>>
        wys == <<m.y, m.y, m.y + m.height, m.y + m.height>>
        overlapMinX == Max2(SeqMin(pxs), SeqMin(wxs))
        overlapMaxX == Min2(SeqMax(pxs), SeqMax(wxs))
        overlapMinY == Max2(SeqMin(pys), SeqMin(wys))
        overlapMaxY == Min2(SeqMax(pys), SeqMax(wys))
        overlapArea == (overlapMaxX - overlapMinX) * (overlapMaxY - overlapMinY)
        wordArea == (SeqMax(wxs) - SeqMin(wxs)) * (SeqMax(wys) - SeqMin(wys))
    IN IF overlapMaxX < overlapMinX \/ overlapMaxY < overlapMinY
       THEN 0 >= OVERLAP_THRESHOLD
       ELSE wordArea # 0 /\ overlapArea * 100 >= OVERLAP_THRESHOLD * wordArea

ElementSelected(view, image, element, pathPoints) ==
  /\ element.hasFrame
  /\ OverlapSelects(mapCoordinates(view, image, FrameX(element.frame),
                                   FrameY(element.frame),
                                   FrameWidth(element.frame),
                                   FrameHeight(element.frame)), pathPoints)

\* The forEach traversal of lines 284-315: triples in block, line, element
\* order.
SelectElements(view, image, blocks, pathPoints) ==
  Flatten([b \in 1..Len(blocks) |->
    Flatten([l \in 1..Len(blocks[b].lines) |->
      Flatten([e \in 1..Len(blocks[b].lines[l].elements) |->
        IF ElementSelected(view, image, blocks[b].lines[l].elements[e], pathPoints)
        THEN <<[blockIndex |-> b, lineIndex |-> l, elementIndex |-> e]>>
        ELSE <<>>])])])

ElementText(blocks, el) ==
  blocks[el.blockIndex].lines[el.lineIndex].elements[el.elementIndex].text

\* A join with a comma for separator
RECURSIVE JoinComma(_)
JoinComma(texts) ==
  IF Len(texts) = 1 THEN texts[1]
  ELSE texts[1] \o "," \o JoinComma(Tail(texts))

RECURSIVE JoinSpace(_)
JoinSpace(texts) ==
  IF Len(texts) = 1 THEN texts[1]
  ELSE texts[1] \o " " \o JoinSpace(Tail(texts))

\* A filter that keeps every text
NonEmptyTextAny(t) == TRUE

NonEmptyText(t) == t # ""

\* selectedTexts of lines 322-324
SelectedTexts(blocks, elements) ==
  SelectSeq([i \in 1..Len(elements) |-> ElementText(blocks, elements[i])],
            NonEmptyText)

\* selectedText is null (NoText) or a string (Text(t)).
NoText == <<>>
Text(t) == <<t>>

\* ------------------------------------------------------ persistence
pdfPath == "/a.pdf"
OtherPath == "/b.pdf"
NullItem == "<null>"

\* page.toString(): the decimal digits of a positive integer
RECURSIVE PageToString(_)
PageToString(n) == IF n < 10 THEN <<n>> ELSE PageToString(n \div 10) \o <<n % 10>>

\* parseInt(str, 10) on a digit string
RECURSIVE parseInt(_)
parseInt(d) ==
  IF Len(d) = 1 THEN d[1]
  ELSE 10 * parseInt(SubSeq(d, 1, Len(d) - 1)) + d[Len(d)]

\* A stored page value: the digit string, or <<>> when the key is absent
\* (getItem gives null; `lastViewedPage &&` treats null and '' alike).
NoPage == <<>>

\* ------------------------------------------------------ inputs
ViewLayouts == {[width |-> 300, height |-> 20], [width |-> 600, height |-> 20]}
ImageSizes == {[width |-> 300, height |-> 20]}
TouchStarts == {[x |-> 0, y |-> 0]}
TouchMoves == {[x |-> 300, y |-> 20]}

\* ------------------------------------------------------ state
VARIABLES
  s,              \* the component state (useState cells) of the last commit
  cycles,         \* performOCR calls in flight, each with its closure
  effectPending,  \* the page-needs-analysis effect is due to run
  store,          \* AsyncStorage: PDF_FILE_PATH and LAST_VIEWED_PAGE
  loader,         \* loadLastViewedPage: position and the path it read
  saves,          \* saveCurrentPageState calls in flight
  ev,             \* history: what the last step did (and the notices it
                  \* raised with Alert.alert), NoEvent when unremarkable
  resultFor,      \* history: the page the stored result was requested for
  opened          \* history: the store as it was when the screen mounted

vars == <<s, cycles, effectPending, store, loader, saves, ev, resultFor, opened>>

\* useState initial values, lines 54-86
InitialState(layout) ==
  [currentPage |-> 1, initialPage |-> 1, totalPages |-> 0,
   isProcessing |-> FALSE, ocrComplete |-> FALSE,
   isDrawingEnabled |-> FALSE, isDrawing |-> FALSE,
   currentPath |-> EmptyPath, paths |-> <<>>,
   ocrResult |-> NoResult, selectedText |-> NoText,
   intersectingElements |-> <<>>, analyzedPages |-> <<>>,
   pageImageUri |-> FALSE,
   viewLayout |-> layout, imageSize |-> [width |-> 0, height |-> 0]]

\* What the store can hold when the screen opens: nothing, a page whose path
\* write never happened, or a path with its page (the page is written first).
InitialStores ==
  {[path |-> NullItem, page |-> NoPage]}
  \cup {[path |-> d, page |-> PageToString(n)] :
          d \in {NullItem, pdfPath, OtherPath}, n \in Pages}

Event(kind, page, path, result) ==
  [kind |-> kind, page |-> page, path |-> path, result |-> result,
   alerts |-> <<>>]
NoEvent == Event("none", 0, EmptyPath, NoResult)

\* The screen after the startup read found nothing to restore, on a device
\* whose window has the size of the captured image.
Init ==
  /\ s = InitialState([width |-> 300, height |-> 20])
  /\ cycles = <<>>
  /\ effectPending = FALSE
  /\ store = [path |-> NullItem, page |-> NoPage]
  /\ loader = [pc |-> "done", savedPdfPath |-> NullItem]
  /\ saves = <<>>
  /\ ev = NoEvent
  /\ resultFor = 0
  /\ opened = store

\* The screen as it mounts, over any store an earlier session can have left.
InitPersist ==
  /\ s \in {InitialState(v) : v \in ViewLayouts}
  /\ cycles = <<>>
  /\ effectPending = FALSE
  /\ store \in InitialStores
  /\ loader = [pc |-> "readPath", savedPdfPath |-> NullItem]
  /\ saves = <<>>
  /\ ev = NoEvent
  /\ resultFor = 0
  /\ opened = store

\* ------------------------------------------------------ selection engine call
PathsOnPage(paths, page) == SelectSeq(paths, LAMBDA q : q.page = page)
PathsOffPage(paths, page) == SelectSeq(paths, LAMBDA q : q.page # page)

\* findIntersectingBlocks without the return of line 279
findIntersectingBlocksAnyPoints(c, t, pathString) ==
  LET pathPoints == parseSvgPath(pathString)
      blocks == Blocks(c.ocrResult)
      elements == IF pathPoints = <<>> THEN <<>>
                  ELSE SelectElements(c.viewLayout, c.imageSize, blocks,
                                      pathPoints)
      selectedTexts == SelectedTexts(blocks, elements)
  IN IF c.ocrResult = NoResult THEN t
     ELSE [t EXCEPT !.intersectingElements = elements,
                    !.selectedText = IF Len(elements) > 0 /\ Len(selectedTexts) > 0
                                     THEN Text(JoinSpace(selectedTexts))
                                     ELSE @]

\* findIntersectingBlocks as created by render c, applied to the pending
\* state t: it reads ocrResult, viewLayout and imageSize of c.
findIntersectingBlocks(c, t, pathString) ==
  LET pathPoints == parseSvgPath(pathString)
      blocks == Blocks(c.ocrResult)
      elements == SelectElements(c.viewLayout, c.imageSize, blocks, pathPoints)
      selectedTexts == SelectedTexts(blocks, elements)
  IN IF c.ocrResult = NoResult THEN t
     ELSE IF Len(pathPoints) < 2 THEN t
     ELSE [t EXCEPT !.intersectingElements = elements,
                    !.selectedText = IF Len(elements) > 0 /\ Len(selectedTexts) > 0
                                     THEN Text(JoinSpace(selectedTexts))
                                     ELSE @]

\* ------------------------------------------------------ analysis cycle
\* The values a performOCR call keeps from the render that created it.
\* Of `paths` it keeps what lines 404-407 will read: the last path of the
\* closure's page, EmptyPath when that page has none.
Closure(c) ==
  LET pathsOnCurrentPage == PathsOnPage(c.paths, c.currentPage)
  IN [currentPage |-> c.currentPage,
      path |-> IF Len(pathsOnCurrentPage) > 0
               THEN pathsOnCurrentPage[Len(pathsOnCurrentPage)].path
               ELSE EmptyPath,
      ocrResult |-> c.ocrResult,
      viewLayout |-> c.viewLayout, imageSize |-> c.imageSize]

\* performOCR without the guard of lines 335-337
performOCRStartsUnguarded(c) == ~c.isProcessing

\* Both entry guards of performOCR, read from the closure c (lines 335-343).
performOCRStarts(c) ==
  /\ ~(Includes(c.analyzedPages, c.currentPage) /\ ~c.isDrawingEnabled)
  /\ ~c.isProcessing

\* The start of a call that leaves the selected text in place
performOCRBeginKeepsText(t) ==
  [t EXCEPT !.isProcessing = TRUE, !.ocrResult = NoResult,
            !.ocrComplete = FALSE, !.intersectingElements = <<>>]

\* Lines 346-350: the updates queued before the first await.
performOCRBegin(t) ==
  [t EXCEPT !.isProcessing = TRUE, !.ocrResult = NoResult,
            !.selectedText = NoText, !.ocrComplete = FALSE,
            !.intersectingElements = <<>>]

\* performOCR called from render c with pending state t: the new pending
\* state and the cycles in flight.
performOCR(c, t, cs) ==
  IF performOCRStarts(c)
  THEN [state |-> performOCRBegin(t),
        cycles |-> Append(cs, [pc |-> "delay", cl |-> Closure(c), uri |-> 0])]
  ELSE [state |-> t, cycles |-> cs]

\* A finally block that leaves the busy flag set
performOCRFinallyBusy(t) == [t EXCEPT !.ocrComplete = TRUE]

\* finally of lines 419-422
performOCRFinally(t) == [t EXCEPT !.isProcessing = FALSE, !.ocrComplete = TRUE]

\* The dependency list without isProcessing
EffectDepsWithoutBusy(t) ==
  <<t.currentPage, t.totalPages, t.isDrawingEnabled, t.analyzedPages,
    t.paths, t.ocrResult, t.viewLayout.width,
    t.viewLayout.height, t.imageSize.width, t.imageSize.height>>

\* The dependencies of the effect of lines 426-431, performOCR's own
\* dependencies included (line 423, and lines 231 and 330 through it).
EffectDeps(t) ==
  <<t.currentPage, t.totalPages, t.isDrawingEnabled, t.analyzedPages,
    t.isProcessing, t.paths, t.ocrResult, t.viewLayout.width,
    t.viewLayout.height, t.imageSize.width, t.imageSize.height>>

\* A commit schedules the effect when a dependency changed; `fresh` says
\* that the handler stored a newly built paths or analyzedPages array.
EffectDue(old, new, fresh) == fresh \/ EffectDeps(old) # EffectDeps(new)

\* The condition of line 428
EffectCondition(c) ==
  /\ c.isDrawingEnabled
  /\ ~Includes(c.analyzedPages, c.currentPage)
  /\ ~c.isProcessing
  /\ c.totalPages > 0

\* Events are taken one at a time: the effect of the last commit has run.
\* The analysis events are explored between saves, not in the middle of one
\* (the two storage writes touch no state the analysis reads); page changes
\* that overtake a save, rejected writes and the startup read are explored
\* by SpecPersist.
Settled == ~effectPending
Idle == Settled /\ saves = <<>>

\* A commit of the pending state `new`.  A result that is cleared is no
\* longer any page's result.
Commit(new, fresh) ==
  /\ s' = new
  /\ effectPending' = EffectDue(s, new, fresh)
  /\ resultFor' = IF new.ocrResult = NoResult THEN 0 ELSE resultFor

RunEffect ==
  /\ effectPending
  /\ LET r == IF EffectCondition(s) THEN performOCR(s, s, cycles)
              ELSE [state |-> s, cycles |-> cycles]
     IN /\ s' = r.state
        /\ cycles' = r.cycles
        /\ effectPending' = EffectDue(s, r.state, FALSE)
        /\ resultFor' = IF r.state.ocrResult = NoResult THEN 0 ELSE resultFor
        /\ ev' = IF r.cycles # cycles
                 THEN Event("effectStart", s.currentPage, EmptyPath, NoResult)
                 ELSE NoEvent
  /\ UNCHANGED <<store, loader, saves, opened>>

\* ------------------------------------------------------ handlers
\* toggleDrawingMode without the `!isProcessing` test of line 107
toggleDrawingModeUnguarded(c, cs) ==
  LET newDrawingEnabled == ~c.isDrawingEnabled
      t1 == [c EXCEPT !.isDrawingEnabled = newDrawingEnabled]
  IN IF ~newDrawingEnabled
     THEN [state |-> [t1 EXCEPT !.isDrawing = FALSE, !.currentPath = EmptyPath],
           cycles |-> cs, fresh |-> FALSE]
     ELSE LET t2 == [t1 EXCEPT !.ocrResult = NoResult, !.selectedText = NoText,
                               !.ocrComplete = FALSE,
                               !.intersectingElements = <<>>,
                               !.analyzedPages =
                                  SelectSeq(@, LAMBDA pg : pg # c.currentPage)]
              r == performOCR(c, t2, cs)
          IN [state |-> r.state, cycles |-> r.cycles, fresh |-> TRUE]

\* toggleDrawingMode that leaves the stroke in progress when turning off
toggleDrawingModeKeepsStroke(c, cs) ==
  LET newDrawingEnabled == ~c.isDrawingEnabled
      t1 == [c EXCEPT !.isDrawingEnabled = newDrawingEnabled]
  IN IF ~newDrawingEnabled
     THEN [state |-> t1, cycles |-> cs, fresh |-> FALSE]
     ELSE IF ~c.isProcessing
     THEN LET t2 == [t1 EXCEPT !.ocrResult = NoResult, !.selectedText = NoText,
                               !.ocrComplete = FALSE,
                               !.intersectingElements = <<>>,
                               !.analyzedPages =
                                  SelectSeq(@, LAMBDA pg : pg # c.currentPage)]
              r == performOCR(c, t2, cs)
          IN [state |-> r.state, cycles |-> r.cycles, fresh |-> TRUE]
     ELSE [state |-> t1, cycles |-> cs, fresh |-> FALSE]

\* toggleDrawingMode of render c (lines 96-125)
toggleDrawingMode(c, cs) ==
  LET newDrawingEnabled == ~c.isDrawingEnabled
      t1 == [c EXCEPT !.isDrawingEnabled = newDrawingEnabled]
  IN IF ~newDrawingEnabled
     THEN [state |-> [t1 EXCEPT !.isDrawing = FALSE, !.currentPath = EmptyPath],
           cycles |-> cs, fresh |-> FALSE]
     ELSE IF ~c.isProcessing
     THEN LET t2 == [t1 EXCEPT !.ocrResult = NoResult, !.selectedText = NoText,
                               !.ocrComplete = FALSE,
                               !.intersectingElements = <<>>,
                               !.analyzedPages =
                                  SelectSeq(@, LAMBDA pg : pg # c.currentPage)]
              r == performOCR(c, t2, cs)
          IN [state |-> r.state, cycles |-> r.cycles, fresh |-> TRUE]
     ELSE [state |-> t1, cycles |-> cs, fresh |-> FALSE]

ToggleDrawingMode ==
  /\ Idle
  /\ LET r == toggleDrawingMode(s, cycles)
     IN /\ Commit(r.state, r.fresh)
        /\ cycles' = r.cycles
  /\ ev' = Event(IF s.isDrawingEnabled THEN "toggleOff" ELSE "toggleOn",
                 s.currentPage, s.currentPath, NoResult)
  /\ UNCHANGED <<store, loader, saves, opened>>

\* The overlay that carries the touch handlers is rendered while lasso mode
\* is on (line 567); a touch that reaches a handler of an earlier render
\* after the mode went off finds the handler's own guard.
TouchIgnored == Event("touchIgnored", s.currentPage, EmptyPath, NoResult)

\* handleTouchStart without the test of line 129
handleTouchStartUnguarded(c, pt) ==
  [c EXCEPT !.isDrawing = TRUE, !.currentPath = MoveTo(pt.x, pt.y)]

\* handleTouchStart (lines 128-139)
handleTouchStart(c, pt) ==
  IF ~c.isDrawingEnabled THEN c
  ELSE [c EXCEPT !.isDrawing = TRUE, !.currentPath = MoveTo(pt.x, pt.y)]

TouchStart ==
  /\ Idle
  /\ \E pt \in TouchStarts : Commit(handleTouchStart(s, pt), FALSE)
  /\ ev' = IF s.isDrawingEnabled THEN NoEvent ELSE TouchIgnored
  /\ UNCHANGED <<cycles, store, loader, saves, opened>>

\* handleTouchMove (lines 142-152)
handleTouchMove(c, pt) ==
  IF ~c.isDrawingEnabled \/ ~c.isDrawing THEN c
  ELSE [c EXCEPT !.currentPath = LineTo(@, pt.x, pt.y)]

TouchMove ==
  /\ Idle
  /\ Len(parseSvgPath(s.currentPath)) < MaxPathPoints
  /\ \E pt \in TouchMoves : Commit(handleTouchMove(s, pt), FALSE)
  /\ ev' = IF s.isDrawingEnabled THEN NoEvent ELSE TouchIgnored
  /\ UNCHANGED <<cycles, store, loader, saves, opened>>

\* setPaths that adds the new path without dropping the page's old one
replacePathAppend(paths, newPath) == Append(paths, newPath)

\* setPaths of lines 169-174
replacePath(paths, newPath) == Append(PathsOffPage(paths, newPath.page), newPath)

\* handleTouchEnd of render c (lines 155-189)
handleTouchEnd(c) ==
  IF ~c.isDrawingEnabled \/ ~c.isDrawing THEN c
  ELSE LET t1 == [c EXCEPT !.isDrawing = FALSE]
           t2 == IF c.currentPath # EmptyPath
                 THEN LET t3 == [t1 EXCEPT !.paths =
                                   replacePath(@, [path |-> c.currentPath,
                                                   page |-> c.currentPage])]
                      IN IF c.ocrComplete /\ c.ocrResult # NoResult
                         THEN findIntersectingBlocks(c, t3, c.currentPath)
                         ELSE t3
                 ELSE t1
       IN [t2 EXCEPT !.currentPath = EmptyPath]

\* The stroke that a touch end in state c finalizes, if any
Finalizes(c) == c.isDrawingEnabled /\ c.isDrawing /\ c.currentPath # EmptyPath

TouchEnd ==
  /\ Idle
  /\ Commit(handleTouchEnd(s), Finalizes(s))
  /\ ev' = IF Finalizes(s)
           THEN Event("strokeEnd", s.currentPage,
                      Closure(s).path, s.ocrResult)
           ELSE IF s.isDrawingEnabled THEN NoEvent ELSE TouchIgnored
  /\ UNCHANGED <<cycles, store, loader, saves, opened>>

\* handleTextSelection (lines 434-436), reached by pressing a highlighted
\* word: the Rect exists for an entry of intersectingElements whose element
\* is found in ocrResult (lines 604-612, 646-653).
handleTextSelection(c, text) == [c EXCEPT !.selectedText = Text(text)]

PressableElements(c) ==
  IF c.ocrResult # NoResult /\ c.ocrComplete /\ c.imageSize.width > 0
  THEN {i \in 1..Len(c.intersectingElements) :
          LET el == c.intersectingElements[i]
              blocks == Blocks(c.ocrResult)
          IN /\ el.blockIndex <= Len(blocks)
             /\ el.lineIndex <= Len(blocks[el.blockIndex].lines)
             /\ el.elementIndex <=
                  Len(blocks[el.blockIndex].lines[el.lineIndex].elements)
             /\ blocks[el.blockIndex].lines[el.lineIndex]
                  .elements[el.elementIndex].hasFrame}
  ELSE {}

PressWord ==
  /\ Idle
  /\ \E i \in PressableElements(s) :
       Commit(handleTextSelection(s,
                ElementText(Blocks(s.ocrResult), s.intersectingElements[i])),
              FALSE)
  /\ ev' = NoEvent
  /\ UNCHANGED <<cycles, store, loader, saves, opened>>

\* clearAll that empties the analyzed pages
clearAllEvictsEverything(c) ==
  [c EXCEPT !.ocrResult = NoResult, !.selectedText = NoText,
            !.ocrComplete = FALSE, !.pageImageUri = FALSE, !.paths = <<>>,
            !.currentPath = EmptyPath, !.intersectingElements = <<>>,
            !.analyzedPages = <<>>]

\* clearAll that drops the paths of the current page only
clearAllCurrentPageOnly(c) ==
  [c EXCEPT !.ocrResult = NoResult, !.selectedText = NoText,
            !.ocrComplete = FALSE, !.pageImageUri = FALSE,
            !.paths = SelectSeq(@, LAMBDA q : q.page # c.currentPage),
            !.currentPath = EmptyPath, !.intersectingElements = <<>>,
            !.analyzedPages = SelectSeq(@, LAMBDA pg : pg # c.currentPage)]

\* clearAll (lines 439-449); its button is disabled while processing
clearAll(c) ==
  [c EXCEPT !.ocrResult = NoResult, !.selectedText = NoText,
            !.ocrComplete = FALSE, !.pageImageUri = FALSE, !.paths = <<>>,
            !.currentPath = EmptyPath, !.intersectingElements = <<>>,
            !.analyzedPages = SelectSeq(@, LAMBDA pg : pg # c.currentPage)]

ClearAll ==
  /\ Idle
  /\ ~s.isProcessing
  /\ Commit(clearAll(s), TRUE)
  /\ ev' = Event("clearAll", s.currentPage, Closure(s).path, NoResult)
  /\ UNCHANGED <<cycles, store, loader, saves, opened>>

\* clearCurrentDrawing that drops the paths of every page
clearCurrentDrawingAllPages(c) ==
  [c EXCEPT !.paths = <<>>, !.currentPath = EmptyPath,
            !.intersectingElements = <<>>, !.selectedText = NoText]

\* clearCurrentDrawing (lines 452-459); its button is shown when the
\* analysis is complete and the current page has a path (line 685)
clearCurrentDrawing(c) ==
  [c EXCEPT !.paths = PathsOffPage(@, c.currentPage),
            !.currentPath = EmptyPath,
            !.intersectingElements = <<>>, !.selectedText = NoText]

ClearCurrentDrawing ==
  /\ Idle
  /\ s.ocrComplete
  /\ PathsOnPage(s.paths, s.currentPage) # <<>>
  /\ ~s.isProcessing
  /\ Commit(clearCurrentDrawing(s), TRUE)
  /\ ev' = Event("clearCurrent", s.currentPage, EmptyPath, NoResult)
  /\ UNCHANGED <<cycles, store, loader, saves, opened>>

\* handleCloseTextPanel (lines 462-466); the panel is shown when
\* selectedText is a non-empty string (line 713)
handleCloseTextPanel(c) ==
  [c EXCEPT !.selectedText = NoText, !.paths = <<>>,
            !.intersectingElements = <<>>]

CloseTextPanel ==
  /\ Idle
  /\ s.selectedText # NoText
  /\ s.selectedText # Text("")
  /\ Commit(handleCloseTextPanel(s), TRUE)
  /\ ev' = Event("closePanel", s.currentPage, Closure(s).path, NoResult)
  /\ UNCHANGED <<cycles, store, loader, saves, opened>>

\* handleLayoutChange (lines 90-93)
handleLayoutChange(c, layout) == [c EXCEPT !.viewLayout = layout]

LayoutChange ==
  /\ Settled
  /\ \E v \in ViewLayouts \ {s.viewLayout} : Commit(handleLayoutChange(s, v), FALSE)
  /\ ev' = NoEvent
  /\ UNCHANGED <<cycles, store, loader, saves, opened>>

\* ------------------------------------------------------ cycle continuation
RemoveAt(q, i) == SubSeq(q, 1, i - 1) \o SubSeq(q, i + 1, Len(q))

\* The awaits of one call taken out of order: the recognizer is called on
\* the captured picture without probing its size
CycleStepSkipsProbe(pc) ==
  CASE pc = "delay" -> "capture"
    [] pc = "capture" -> "recognize"
    [] pc = "measure" -> "recognize"

\* The awaits of one call, in program order: the settle delay (line 358),
\* captureRef (361), Image.getSize (371-384), recognize (390).  CycleStep
\* gives the await a call waits at once the one at pc has resolved.
CycleStep(pc) ==
  CASE pc = "delay" -> "capture"
    [] pc = "capture" -> "measure"
    [] pc = "measure" -> "recognize"

\* Line 358 resolves and captureRef is called (line 361): the picture taken
\* is that of the page then showing.
SettleDelayDone ==
  /\ Idle
  /\ \E i \in 1..Len(cycles) :
       /\ cycles[i].pc = "delay"
       /\ cycles' = [cycles EXCEPT ![i].pc = CycleStep(@),
                                 ![i].uri = s.currentPage]
  /\ ev' = NoEvent
  /\ UNCHANGED <<s, effectPending, store, loader, saves, resultFor, opened>>

\* captureRef resolved: lines 367-372
CaptureDone ==
  /\ Idle
  /\ \E i \in 1..Len(cycles) :
       /\ cycles[i].pc = "capture"
       /\ Commit([s EXCEPT !.pageImageUri = TRUE], FALSE)
       /\ cycles' = [cycles EXCEPT ![i].pc = CycleStep(@)]
  /\ ev' = NoEvent
  /\ UNCHANGED <<store, loader, saves, opened>>

\* Image.getSize succeeded: lines 374-377, then recognize is called (390)
ImageSizeDone ==
  /\ Idle
  /\ \E i \in 1..Len(cycles), size \in ImageSizes :
       /\ cycles[i].pc = "measure"
       /\ Commit([s EXCEPT !.imageSize = size], FALSE)
       /\ cycles' = [cycles EXCEPT ![i].pc = CycleStep(@)]
  /\ ev' = NoEvent
  /\ UNCHANGED <<store, loader, saves, opened>>

\* Lines 397-408 reading the page now showing instead of the closure's page
storeRecognitionCurrentPage(cl, t, result) ==
  LET t1 == [t EXCEPT !.ocrResult = result,
                      !.analyzedPages = Append(@, t.currentPage)]
      pathsOnCurrentPage == PathsOnPage(t.paths, t.currentPage)
  IN IF Len(pathsOnCurrentPage) > 0
     THEN findIntersectingBlocks(cl, t1,
            pathsOnCurrentPage[Len(pathsOnCurrentPage)].path)
     ELSE t1

\* Lines 397-408 for a non-null result, of the call with closure cl, applied
\* to the pending state t.
storeRecognition(cl, t, result) ==
  LET t1 == [t EXCEPT !.ocrResult = result,
                      !.analyzedPages = Append(@, cl.currentPage)]
  IN IF cl.path # EmptyPath
     THEN findIntersectingBlocks(cl, t1, cl.path)
     ELSE t1

\* What recognize resolves with: the words of the captured page, or a result
\* without blocks.
RecognizerResults(cycle) == {TextResult(cycle.uri), EmptyResult}

\* A result without blocks reported with the notice of a failure
RecognizedNoticesError(result) ==
  IF Blocks(result) = <<>> THEN <<"OCR Error">> ELSE <<>>

\* Line 410-412: the notice of a result without blocks
RecognizedNotices(result) ==
  IF Blocks(result) = <<>> THEN <<"OCR Complete">> ELSE <<>>

\* TextRecognition.recognize resolved with a result: lines 395-412 and the
\* finally block
RecognizeDone ==
  /\ Idle
  /\ \E i \in 1..Len(cycles) :
       /\ cycles[i].pc = "recognize"
       /\ \E result \in RecognizerResults(cycles[i]) :
            LET new == performOCRFinally(storeRecognition(cycles[i].cl, s, result))
            IN /\ s' = new
               /\ effectPending' = EffectDue(s, new, TRUE)
               /\ resultFor' = cycles[i].cl.currentPage
               /\ ev' = [Event(IF result = EmptyResult THEN "empty" ELSE "recognized",
                               cycles[i].cl.currentPage, cycles[i].cl.path,
                               cycles[i].cl.ocrResult)
                           EXCEPT !.alerts = RecognizedNotices(result)]
       /\ cycles' = RemoveAt(cycles, i)
  /\ UNCHANGED <<store, loader, saves, opened>>

\* An error notice that names nothing at all
FailureNoticesSilent(pc) == {<<>>}

\* The notices of a cycle that fails while waiting at pc: the catch of lines
\* 416-418 for a rejected call, line 414 for a null result of recognize.
FailureNotices(pc) ==
  {<<"OCR Error">>} \cup (IF pc = "recognize" THEN {<<"OCR Failed">>} ELSE {})

\* recognize resolved with null (lines 413-415), or captureRef, Image.getSize
\* or recognize rejected (catch, lines 416-418); then the finally block
CycleFailed ==
  /\ Idle
  /\ \E i \in 1..Len(cycles) :
       /\ cycles[i].pc \in {"capture", "measure", "recognize"}
       /\ Commit(performOCRFinally(s), FALSE)
       /\ cycles' = RemoveAt(cycles, i)
       /\ \E notices \in FailureNotices(cycles[i].pc) :
            ev' = [Event("failed", cycles[i].cl.currentPage, cycles[i].cl.path,
                         cycles[i].cl.ocrResult)
                   EXCEPT !.alerts = notices]
  /\ UNCHANGED <<store, loader, saves, opened>>

\* ------------------------------------------------------ page change, persistence
\* handlePageChange that drops the drawings
handlePageChangeClearsPaths(c, page, total) ==
  [c EXCEPT !.currentPage = page,
            !.totalPages = IF c.totalPages # total THEN total ELSE @,
            !.paths = <<>>]

\* handlePageChange that records the page count and not the page
handlePageChangeKeepsPage(c, page, total) ==
  [c EXCEPT !.totalPages = IF c.totalPages # total THEN total ELSE @]

\* handlePageChange (lines 469-479)
handlePageChange(c, page, total) ==
  [c EXCEPT !.currentPage = page,
            !.totalPages = IF c.totalPages # total THEN total ELSE @]

\* onPageChanged(page, noOfPages): the handler, and the call of
\* saveCurrentPageState it makes (line 478), which runs up to its first await
PageChanged(page) ==
  /\ Commit(handlePageChange(s, page, noOfPages), FALSE)
  /\ saves' = Append(saves, [pc |-> "writePage", page |-> page,
                             filePath |-> pdfPath])
  /\ ev' = IF page # s.currentPage
           THEN Event("pageChange", page, EmptyPath, NoResult)
           ELSE NoEvent
  /\ UNCHANGED <<cycles, store, loader, opened>>

\* A page change with no save in flight
PageChange ==
  /\ Idle
  /\ \E page \in Pages : PageChanged(page)

\* A page change that overtakes the save of an earlier one
PageChangeDuringSave ==
  /\ Settled
  /\ saves # <<>>
  /\ Len(saves) < MaxSaves
  /\ \E page \in Pages : PageChanged(page)

\* saveCurrentPageState, first setItem (line 484) resolved
SaveWritePage ==
  /\ Settled
  /\ \E i \in 1..Len(saves) :
       /\ saves[i].pc = "writePage"
       /\ store' = [store EXCEPT !.page = PageToString(saves[i].page)]
       /\ saves' = [saves EXCEPT ![i].pc = "writePath"]
  /\ ev' = NoEvent
  /\ UNCHANGED <<s, cycles, effectPending, loader, resultFor, opened>>

\* saveCurrentPageState, second setItem (line 485) resolved
SaveWritePath ==
  /\ Settled
  /\ \E i \in 1..Len(saves) :
       /\ saves[i].pc = "writePath"
       /\ store' = [store EXCEPT !.path = saves[i].filePath]
       /\ saves' = RemoveAt(saves, i)
  /\ ev' = NoEvent
  /\ UNCHANGED <<s, cycles, effectPending, loader, resultFor, opened>>

\* Either setItem rejected: the catch of lines 487-489 logs and the call ends
SaveWriteFailed ==
  /\ Settled
  /\ \E i \in 1..Len(saves) :
       /\ saves' = RemoveAt(saves, i)
       /\ ev' = Event("saveFailed", saves[i].page, EmptyPath, NoResult)
  /\ UNCHANGED <<s, cycles, effectPending, store, loader, resultFor, opened>>

\* loadLastViewedPage, first getItem (line 496) resolved
LoadReadPath ==
  /\ Settled
  /\ loader.pc = "readPath"
  /\ loader' = [pc |-> "readPage", savedPdfPath |-> store.path]
  /\ ev' = NoEvent
  /\ UNCHANGED <<s, cycles, effectPending, store, saves, resultFor, opened>>

\* Lines 500-507 without the comparison of the saved path
restorePageAnyPath(c, savedPdfPath, lastViewedPage) ==
  IF lastViewedPage # NoPage
  THEN [c EXCEPT !.currentPage = parseInt(lastViewedPage),
                 !.initialPage = parseInt(lastViewedPage)]
  ELSE c

\* Lines 500-507 once both items are read
restorePage(c, savedPdfPath, lastViewedPage) ==
  IF savedPdfPath = pdfPath /\ lastViewedPage # NoPage
  THEN [c EXCEPT !.currentPage = parseInt(lastViewedPage),
                 !.initialPage = parseInt(lastViewedPage)]
  ELSE c

\* loadLastViewedPage, second getItem (line 497) resolved, and the restore
LoadReadPage ==
  /\ Settled
  /\ loader.pc = "readPage"
  /\ Commit(restorePage(s, loader.savedPdfPath, store.page), FALSE)
  /\ loader' = [loader EXCEPT !.pc = "done"]
  /\ ev' = Event("loaded", s.currentPage, EmptyPath, NoResult)
  /\ UNCHANGED <<cycles, store, saves, opened>>

\* Either getItem rejected: the catch of lines 508-510 logs and the read ends
LoadReadFailed ==
  /\ Settled
  /\ loader.pc \in {"readPath", "readPage"}
  /\ loader' = [loader EXCEPT !.pc = "done"]
  /\ ev' = NoEvent
  /\ UNCHANGED <<s, cycles, effectPending, store, saves, resultFor, opened>>

Next ==
  \/ RunEffect
  \/ ToggleDrawingMode
  \/ TouchStart
  \/ TouchMove
  \/ TouchEnd
  \/ PressWord
  \/ ClearAll
  \/ ClearCurrentDrawing
  \/ CloseTextPanel
  \/ SettleDelayDone
  \/ CaptureDone
  \/ ImageSizeDone
  \/ RecognizeDone
  \/ CycleFailed
  \/ PageChange
  \/ SaveWritePage
  \/ SaveWritePath

Spec == Init /\ [][Next]_vars

\* Startup: the read of the two keys against the renderer's first events.
NextPersist ==
  \/ RunEffect
  \/ PageChange
  \/ PageChangeDuringSave
  \/ SaveWritePage
  \/ SaveWritePath
  \/ SaveWriteFailed
  \/ LoadReadPath
  \/ LoadReadPage
  \/ LoadReadFailed
  \/ LayoutChange

SpecPersist == InitPersist /\ [][NextPersist]_vars

\* The analysis controller under its triggers alone (toggle, page change,
\* clearAll, the effect), with the scheduling the runtime gives: the effect
\* of a commit runs, a storage write resolves, and the timer and each
\* collaborator call of a cycle (captureRef, Image.getSize, recognize)
\* resolves or rejects.  The continuations are strongly fair because the
\* model takes them between the user's events, which never hold back a
\* resolved promise in the program.
NextLive ==
  \/ RunEffect
  \/ ToggleDrawingMode
  \/ ClearAll
  \/ SettleDelayDone
  \/ CaptureDone
  \/ ImageSizeDone
  \/ RecognizeDone
  \/ CycleFailed
  \/ PageChange
  \/ SaveWritePage
  \/ SaveWritePath

Fairness ==
  /\ WF_vars(RunEffect)
  /\ WF_vars(SaveWritePage)
  /\ WF_vars(SaveWritePath)
  /\ SF_vars(SettleDelayDone)
  /\ SF_vars(CaptureDone \/ CycleFailed)
  /\ SF_vars(ImageSizeDone \/ CycleFailed)
  /\ SF_vars(RecognizeDone \/ CycleFailed)

SpecLive == Init /\ [][NextLive]_vars /\ Fairness

\* ------------------------------------------------------ selection engine
\* The selection engine alone: the screen in lasso mode after the page was
\* analyzed, over every sample picture, window size and picture size; the
\* user draws whole strokes, presses highlighted words, clears the lasso and
\* closes the text panel.
Pt(x, y) == [x |-> x, y |-> y]

EngineViews ==
  {[width |-> 300, height |-> 20], [width |-> 600, height |-> 20],
   [width |-> 600, height |-> 40]}
EngineImages == {[width |-> 300, height |-> 20], [width |-> 600, height |-> 40]}
EngineResults ==
  {TextResult(p) : p \in Pages \cup {TwoBlockSample, ThresholdSample}}
    \cup {EmptyResult}

\* The touches of one stroke: the touch start and the touch moves.
EngineStrokes ==
  {<<Pt(0, 0)>>,
   <<Pt(0, 0), Pt(100, 20)>>,
   <<Pt(100, 20), Pt(0, 0)>>,
   <<Pt(0, 0), Pt(300, 20)>>,
   <<Pt(300, 0), Pt(150, 10), Pt(0, 20)>>,
   <<Pt(0, 0), Pt(40, 20)>>,
   <<Pt(0, 0), Pt(39, 20)>>,
   <<Pt(0, 0), Pt(80, 20)>>,
   <<Pt(120, 0), Pt(180, 20)>>}

\* The state performOCR leaves when a call started by the toggle on the
\* first page ends with `result`.
AnalyzedState(view, image, result) ==
  [InitialState(view) EXCEPT !.isDrawingEnabled = TRUE, !.ocrComplete = TRUE,
                             !.ocrResult = result, !.analyzedPages = <<1>>,
                             !.pageImageUri = TRUE, !.imageSize = image]

InitEngine ==
  /\ s \in {AnalyzedState(v, im, r) :
              v \in EngineViews, im \in EngineImages, r \in EngineResults}
  /\ cycles = <<>>
  /\ effectPending = FALSE
  /\ store = [path |-> NullItem, page |-> NoPage]
  /\ loader = [pc |-> "done", savedPdfPath |-> NullItem]
  /\ saves = <<>>
  /\ ev = NoEvent
  /\ resultFor = 1
  /\ opened = store

\* The touch moves of a stroke, each handled in the render of the one before
RECURSIVE handleTouchMoves(_, _)
handleTouchMoves(c, pts) ==
  IF pts = <<>> THEN c
  ELSE handleTouchMoves(handleTouchMove(c, Head(pts)), Tail(pts))

\* The render in which the touch end of a stroke arrives
StrokeDrawn(c, stroke) ==
  handleTouchMoves(handleTouchStart(c, Head(stroke)), Tail(stroke))

\* A whole stroke: touch start, touch moves and touch end, with no other
\* event in between.
DrawStroke ==
  /\ Idle
  /\ \E stroke \in EngineStrokes :
       LET c == StrokeDrawn(s, stroke)
       IN /\ Commit(handleTouchEnd(c), Finalizes(c))
          /\ ev' = Event("stroke", s.currentPage, c.currentPath, s.ocrResult)
  /\ UNCHANGED <<cycles, store, loader, saves, opened>>

NextEngine ==
  \/ RunEffect
  \/ DrawStroke
  \/ PressWord
  \/ ClearCurrentDrawing
  \/ CloseTextPanel

SpecEngine == InitEngine /\ [][NextEngine]_vars

\* ------------------------------------------------------ path parser
\* The path parser alone: the path string of the stroke in progress is any
\* string of up to MaxCommands commands, well-formed or not; the stroke goes
\* on, ends (which hands the string to the parser) and a new one starts.
WellFormedCommands ==
  {<<c, Num(p[1]), Num(p[2])>> : c \in {CmdM, CmdL}, p \in {<<1, 2>>, <<2, 1>>}}
MalformedCommands ==
  {<<CmdM, Junk, Num(1)>>, <<CmdL, Num(1), Junk>>, <<CmdM, Num(1)>>, <<CmdL>>}
ParserCommands == WellFormedCommands \cup MalformedCommands

CommandStrings ==
  {Flatten(q) : q \in UNION {[1..n -> ParserCommands] : n \in 1..MaxCommands}}

InitParser ==
  /\ s \in {[AnalyzedState([width |-> 300, height |-> 20],
                           [width |-> 300, height |-> 20], TextResult(1))
               EXCEPT !.isDrawing = TRUE, !.currentPath = p] :
              p \in CommandStrings}
  /\ cycles = <<>>
  /\ effectPending = FALSE
  /\ store = [path |-> NullItem, page |-> NoPage]
  /\ loader = [pc |-> "done", savedPdfPath |-> NullItem]
  /\ saves = <<>>
  /\ ev = NoEvent
  /\ resultFor = 1
  /\ opened = store

NextParser ==
  \/ RunEffect
  \/ TouchStart
  \/ TouchMove
  \/ TouchEnd

SpecParser == InitParser /\ [][NextParser]_vars

\* ====================================================== properties
\* The lasso stored for a page, EmptyPath when the page has none.
LassoOf(paths, page) ==
  LET onPage == PathsOnPage(paths, page)
  IN IF Len(onPage) > 0 THEN onPage[Len(onPage)].path ELSE EmptyPath

HasPoints(pathString) == Len(parseSvgPath(pathString)) >= 2

\* The output of the Overlap Selection Engine for a lasso and a result.
EngineOutput(view, image, result, pathString) ==
  LET blocks == Blocks(result)
      elements == SelectElements(view, image, blocks, parseSvgPath(pathString))
      texts == SelectedTexts(blocks, elements)
  IN [elements |-> elements,
      text |-> IF Len(elements) > 0 /\ Len(texts) > 0
               THEN Text(JoinSpace(texts)) ELSE NoText]

Selection(t) == [elements |-> t.intersectingElements, text |-> t.selectedText]
NoSelection == [elements |-> <<>>, text |-> NoText]

AnalysisState(t) ==
  <<t.isProcessing, t.ocrResult, t.selectedText, t.intersectingElements,
    t.analyzedPages>>

\* C1: at most one analysis cycle is in flight in every reachable state, and
\* a trigger (toggle, page change, the page-needs-analysis effect) that
\* arrives while a cycle is in flight starts no cycle and changes neither
\* the busy flag, the stored result, the selection nor the analyzed pages.
C1_OneCycleInFlight ==
  /\ [](Len(cycles) <= 1)
  /\ [][(cycles # <<>> /\ (ToggleDrawingMode \/ PageChange \/ RunEffect))
          => (cycles' = cycles /\ AnalysisState(s') = AnalysisState(s))]_vars

\* A toggle to ON arrived while a cycle was past its start.
C1_Witness ==
  /\ Len(cycles) = 1
  /\ cycles[1].pc # "delay"
  /\ ev.kind = "toggleOn"

\* C2: when a cycle for page p ends with a recognized result and p has a
\* lasso (the one it had when the cycle started), the highlighted words and
\* the selected text are the engine's output for that lasso against the
\* result the cycle just stored.
C2_CompletionSelectsAgainstStoredResult ==
  (/\ ev.kind = "recognized"
   /\ HasPoints(ev.path)
   /\ LassoOf(s.paths, ev.page) = ev.path)
  => Selection(s) = EngineOutput(s.viewLayout, s.imageSize, s.ocrResult, ev.path)

\* C3: when a stroke was finalized on page p while the cycle for p was in
\* flight, the recompute at the cycle's end uses the lasso p has at that
\* time.
C3_CompletionUsesCurrentLasso ==
  (/\ ev.kind = "recognized"
   /\ LassoOf(s.paths, ev.page) # ev.path
   /\ HasPoints(LassoOf(s.paths, ev.page)))
  => Selection(s) = EngineOutput(s.viewLayout, s.imageSize, s.ocrResult,
                                 LassoOf(s.paths, ev.page))

\* The selections a recompute over the lasso of page ev.page can give.
SelectionsForEndedPage ==
  {NoSelection} \cup
  {EngineOutput(s.viewLayout, s.imageSize, r, l) :
     r \in {s.ocrResult, ev.result} \ {NoResult},
     l \in {q \in {ev.path, LassoOf(s.paths, ev.page)} : HasPoints(q)}}

\* C4: a page change while a cycle for page p is in flight leaves the cycle
\* in flight; when the cycle ends with a result, the result is stored, p
\* (not the page now showing) is the page added to the analyzed pages, and
\* the selection comes from p's lasso, not from that of the page showing.
C4_PageChangeKeepsCycle ==
  /\ [][PageChange => cycles' = cycles]_vars
  /\ []((ev.kind \in {"recognized", "empty"} /\ ev.page # s.currentPage)
         => /\ s.ocrResult # NoResult
            /\ s.analyzedPages # <<>>
            /\ s.analyzedPages[Len(s.analyzedPages)] = ev.page
            /\ Selection(s) \in SelectionsForEndedPage)

\* A cycle for a page with a lasso ended after the page was changed.
C4_Witness ==
  /\ ev.kind = "recognized"
  /\ ev.page # s.currentPage
  /\ HasPoints(ev.path)
  /\ HasPoints(LassoOf(s.paths, s.currentPage))

\* C5: with no cycle in flight, the highlighted words are the engine's
\* output for the stored result and the current page's lasso, and empty
\* when either is absent.
C5_SelectionIsDerived ==
  LET lasso == LassoOf(s.paths, s.currentPage)
  IN (cycles = <<>> /\ ~effectPending /\ (lasso = EmptyPath \/ HasPoints(lasso)))
     => s.intersectingElements =
          IF s.ocrResult = NoResult \/ lasso = EmptyPath THEN <<>>
          ELSE EngineOutput(s.viewLayout, s.imageSize, s.ocrResult, lasso).elements

\* C6: a stroke end on a page other than the one the stored result was
\* produced for selects no word of that result.
C6_StrokeEndUsesOwnPageResult ==
  [][(/\ TouchEnd
      /\ Finalizes(s)
      /\ s.ocrResult # NoResult
      /\ s.ocrResult.page # s.currentPage
      /\ resultFor # s.currentPage)
     => (s'.intersectingElements = <<>>
         \/ s'.intersectingElements = s.intersectingElements)]_vars

\* C7: with {documentPath: d, lastPage: n} persisted when d is opened, the
\* startup read makes the current page and the initial page n, whatever
\* page changes the renderer emitted meanwhile.
C7_RestoresPersistedPage ==
  (/\ ev.kind = "loaded"
   /\ opened.path = pdfPath
   /\ opened.page # NoPage)
  => (/\ s.currentPage = parseInt(opened.page)
      /\ s.initialPage = parseInt(opened.page))

\* C8: when the documentPath the startup read finds differs from the path
\* of the opened document, the read changes neither the current page nor
\* the initial page, which stays 1, whatever lastPage is stored.
C8_NoRestoreAcrossDocuments ==
  [][(loader.pc # "done" /\ loader'.pc = "done"
      /\ loader'.savedPdfPath # pdfPath)
     => (/\ s'.currentPage = s.currentPage
         /\ s.initialPage = 1
         /\ s'.initialPage = 1)]_vars

\* The read found the other document's path and a stored page.
C8_Witness ==
  /\ ev.kind = "loaded"
  /\ loader.savedPdfPath = OtherPath
  /\ store.page # NoPage
  /\ s.initialPage = 1

\* C9: the paths hold at most one lasso per page in every state, and a
\* stroke end on page p leaves p with exactly the new lasso in one step.
C9_OneLassoPerPage ==
  /\ [](\A p \in Pages : Len(PathsOnPage(s.paths, p)) <= 1)
  /\ [][(TouchEnd /\ Finalizes(s))
          => PathsOnPage(s'.paths, s.currentPage)
               = <<[path |-> s.currentPath, page |-> s.currentPage]>>]_vars

\* A stroke end replaced the page's lasso by a different one.
C9_Witness ==
  /\ ev.kind = "strokeEnd"
  /\ ev.path # EmptyPath
  /\ LassoOf(s.paths, ev.page) # ev.path

\* C10: a stroke end and clearCurrentDrawing on page q leave the lasso of
\* every other page as it was; clearCurrentDrawing removes q's lasso and
\* clears the highlighted words and the selected text.
C10_PageIsolation ==
  [][/\ (TouchEnd \/ ClearCurrentDrawing)
          => \A p \in Pages \ {s.currentPage} :
               PathsOnPage(s'.paths, p) = PathsOnPage(s.paths, p)
     /\ ClearCurrentDrawing
          => /\ PathsOnPage(s'.paths, s.currentPage) = <<>>
             /\ s'.intersectingElements = <<>>
             /\ s'.selectedText = NoText]_vars

\* clearCurrentDrawing ran on a page while another page had a lasso.
C10_Witness ==
  /\ ev.kind = "clearCurrent"
  /\ \E p \in Pages \ {ev.page} : LassoOf(s.paths, p) # EmptyPath

\* The steps that take away or replace the lasso stored for page p.
LassoLost(p) ==
  /\ LassoOf(s.paths, p) # EmptyPath
  /\ PathsOnPage(s'.paths, p) # PathsOnPage(s.paths, p)

\* C11 as stated: the lasso of a page disappears only by clearCurrentDrawing
\* on that page, by clearAll or by a new stroke end on that page.
C11_LassoRemovedByThreeEvents ==
  [][\A p \in Pages :
       LassoLost(p) => \/ (ClearCurrentDrawing /\ p = s.currentPage)
                       \/ ClearAll
                       \/ (TouchEnd /\ Finalizes(s) /\ p = s.currentPage)]_vars

\* C11, amended: the lasso of a page disappears only by clearCurrentDrawing
\* on that page, by clearAll, by closing the selected-text panel (which
\* clears the drawings of every page) or by a new stroke end on that page;
\* toggles, page changes, the analysis steps and pressing a word keep it.
C11_LassoRemovedByFourEvents ==
  [][\A p \in Pages :
       LassoLost(p) => \/ (ClearCurrentDrawing /\ p = s.currentPage)
                       \/ ClearAll
                       \/ CloseTextPanel
                       \/ (TouchEnd /\ Finalizes(s) /\ p = s.currentPage)]_vars

\* The panel was closed on a page that had a lasso, and no lasso is left.
C11_Witness ==
  /\ ev.kind = "closePanel"
  /\ ev.path # EmptyPath
  /\ s.paths = <<>>

\* C12: a cycle starts only for the page showing and only while that page is
\* not among the analyzed pages, before and after the step that starts it;
\* an analyzed page is analyzed again only once it was evicted.
C12_StartsOnlyForUnanalyzedPage ==
  [][Len(cycles') > Len(cycles)
       => /\ cycles'[Len(cycles')].cl.currentPage = s.currentPage
          /\ ~Includes(s.analyzedPages, s.currentPage)
          /\ ~Includes(s'.analyzedPages, s.currentPage)]_vars

\* A toggle to ON found the page analyzed: performOCR returned at its first
\* guard, no cycle is in flight and the page is evicted.
C12_Witness ==
  /\ ev.kind = "toggleOn"
  /\ cycles = <<>>
  /\ ~s.isProcessing
  /\ s.totalPages > 0
  /\ ~Includes(s.analyzedPages, ev.page)

\* C13: a page leaves the analyzed pages only by a toggle to ON or a clearAll
\* while it is the page showing.
C13_EvictionOnlyByToggleOnOrClear ==
  [][\A p \in Pages :
       (Includes(s.analyzedPages, p) /\ ~Includes(s'.analyzedPages, p))
         => /\ p = s.currentPage
            /\ \/ (ToggleDrawingMode /\ ~s.isDrawingEnabled)
               \/ ClearAll]_vars

\* clearAll ran and another page is still among the analyzed pages.
C13_Witness ==
  /\ ev.kind = "clearAll"
  /\ \E p \in Pages \ {ev.page} : Includes(s.analyzedPages, p)

\* C14: a cycle that fails ends in the same step with exactly one notice,
\* the busy flag false, the analyzed pages as they were and no result stored.
C14_FailureIsContained ==
  [][CycleFailed
       => /\ Len(ev'.alerts) = 1
          /\ cycles' = <<>>
          /\ ~s'.isProcessing
          /\ s'.analyzedPages = s.analyzedPages
          /\ ~Includes(s'.analyzedPages, ev'.page)
          /\ s'.ocrResult = NoResult]_vars

\* A cycle failed at the capture or at the measurement.
C14_Witness ==
  /\ ev.kind = "failed"
  /\ ev.alerts = <<"OCR Error">>
  /\ ~s.pageImageUri \/ s.imageSize.width = 0

\* C17 as stated: every toggle to ON leaves no result, no highlighted word,
\* no selected text and the page showing evicted from the analyzed pages,
\* also when a cycle is in flight.
C17_ToggleOnAlwaysResets ==
  [][(ToggleDrawingMode /\ ~s.isDrawingEnabled)
       => /\ s'.ocrResult = NoResult
          /\ s'.intersectingElements = <<>>
          /\ s'.selectedText = NoText
          /\ ~Includes(s'.analyzedPages, s.currentPage)]_vars

\* C18: a toggle to OFF in the middle of a stroke keeps the paths and drops
\* the stroke; a stroke is in progress again only after a new touch start,
\* and a touch end with no stroke in progress stores no path and leaves the
\* selection alone.
C18_ToggleOffDiscardsStroke ==
  /\ [][(ToggleDrawingMode /\ s.isDrawingEnabled)
          => /\ s'.paths = s.paths
             /\ ~s'.isDrawing
             /\ s'.currentPath = EmptyPath]_vars
  /\ [][(~s.isDrawing /\ s'.isDrawing) => (TouchStart /\ s.isDrawingEnabled)]_vars
  /\ [][(TouchEnd /\ ~s.isDrawing)
          => (s'.paths = s.paths /\ Selection(s') = Selection(s))]_vars

\* Lasso mode went off over a stroke with points.
C18_Witness ==
  /\ ev.kind = "toggleOff"
  /\ ev.path # EmptyPath
  /\ s.currentPath = EmptyPath

\* C19: while lasso mode is off, touch start, move and end change nothing.
C19_TouchesIgnoredWhenOff ==
  [][((TouchStart \/ TouchMove \/ TouchEnd) /\ ~s.isDrawingEnabled)
       => s' = s]_vars

\* A touch arrived with lasso mode off, a lasso stored and words highlighted.
C19_Witness ==
  /\ ev.kind = "touchIgnored"
  /\ s.paths # <<>>
  /\ s.intersectingElements # <<>>

\* C20: clearAll leaves no result, no highlighted word, no selected text, no
\* path on any page and the page showing not analyzed; the other analyzed
\* pages, the page number and the lasso mode stay.
C20_ClearAllEffect ==
  [][ClearAll
       => /\ s'.ocrResult = NoResult
          /\ s'.intersectingElements = <<>>
          /\ s'.selectedText = NoText
          /\ s'.paths = <<>>
          /\ ~Includes(s'.analyzedPages, s.currentPage)
          /\ SelectSeq(s.analyzedPages, LAMBDA pg : pg # s.currentPage)
               = s'.analyzedPages
          /\ s'.currentPage = s.currentPage
          /\ s'.isDrawingEnabled = s.isDrawingEnabled]_vars

\* clearAll ran in lasso mode on a page with a lasso, another page analyzed.
C20_Witness ==
  /\ ev.kind = "clearAll"
  /\ ev.path # EmptyPath
  /\ s.isDrawingEnabled
  /\ s.analyzedPages # <<>>
  /\ s.paths = <<>>

\* C15: the busy flag is set exactly while a cycle is in flight, and every
\* cycle that starts ends with the busy flag false, by success or failure,
\* when the timer and the collaborator calls resolve or reject.
C15_CycleEnds ==
  /\ [](s.isProcessing <=> cycles # <<>>)
  /\ (s.isProcessing ~> ~s.isProcessing)

\* A cycle ended, by success or by failure, and the controller is idle.
C15_Witness ==
  /\ ev.kind \in {"recognized", "empty", "failed"}
  /\ ~s.isProcessing
  /\ cycles = <<>>
  /\ s.totalPages > 0

\* Page p is showing in lasso mode, the page count is known and p is not
\* analyzed.
NeedsAnalysis(p) ==
  /\ s.isDrawingEnabled
  /\ s.totalPages > 0
  /\ s.currentPage = p
  /\ ~Includes(s.analyzedPages, p)

CycleInFlightFor(p) == \E i \in 1..Len(cycles) : cycles[i].cl.currentPage = p

\* C16: when a page needs analysis, a cycle for it is eventually in flight
\* unless the user leaves the page or lasso mode first; this includes a page
\* reached while the cycle of another page was in flight.
C16_NeededAnalysisStarts ==
  \A p \in Pages :
    NeedsAnalysis(p)
      ~> (CycleInFlightFor(p) \/ ~s.isDrawingEnabled \/ s.currentPage # p)

\* The effect started the cycle of the page showing after the cycle of the
\* other page had ended.
C16_Witness ==
  /\ ev.kind = "effectStart"
  /\ ev.page = s.currentPage
  /\ CycleInFlightFor(s.currentPage)
  /\ \E p \in Pages \ {s.currentPage} : Includes(s.analyzedPages, p)

\* C21: a page-change event always sets the current page to the page of the
\* event and the page count to the count of the event, and issues one write
\* of that page for the opened document; a write that fails is only logged:
\* it raises no notice, ends the call and leaves the component state, the
\* new current page included, as it was.
C21_PageChangeSavesBestEffort ==
  /\ [][(PageChange \/ PageChangeDuringSave) =>
          /\ s'.currentPage \in Pages
          /\ s'.totalPages = noOfPages
          /\ saves' = Append(saves, [pc |-> "writePage",
                                     page |-> s'.currentPage,
                                     filePath |-> pdfPath])]_vars
  /\ [][SaveWriteFailed =>
          /\ s' = s
          /\ ev'.alerts = <<>>
          /\ Len(saves') = Len(saves) - 1
          /\ store' = store]_vars

\* The write of a page change failed before it stored the page, and the
\* screen still shows that page.
C21_Witness ==
  /\ ev.kind = "saveFailed"
  /\ s.currentPage = ev.page
  /\ s.totalPages = noOfPages
  /\ store.page # PageToString(ev.page)

\* C22: when recognize resolves with a result of zero blocks the call ends
\* as a success: the empty result is the stored result, the page of the call
\* is in analyzedPages, the one notice raised is "OCR Complete" and neither
\* of the failure notices, and no call is in flight nor is the busy flag set.
C22_EmptyResultIsSuccess ==
  ev.kind = "empty" =>
    /\ s.ocrResult = EmptyResult
    /\ Includes(s.analyzedPages, ev.page)
    /\ ev.alerts = <<"OCR Complete">>
    /\ ~s.isProcessing
    /\ cycles = <<>>

\* A call for the page showing has just resolved with a result of zero
\* blocks, replacing no earlier result.
C22_Witness ==
  /\ ev.kind = "empty"
  /\ ev.page = s.currentPage
  /\ ev.result = NoResult
  /\ s.ocrResult = EmptyResult

\* C23: within one call the collaborators are reached in the order capture,
\* image-size probe, recognizer, each once: a call starts at the settle
\* delay, every move of a call is from one await to the next in that order
\* (so the probe is called only when captureRef resolved and recognize only
\* when Image.getSize resolved too), and a result is stored only by the
\* step in which a call waiting at recognize ends.
C23_CollaboratorsInOrder ==
  /\ [][Len(cycles') > Len(cycles) =>
          /\ cycles' = Append(cycles, cycles'[Len(cycles')])
          /\ cycles'[Len(cycles')].pc = "delay"]_vars
  /\ [][\A i \in 1..Len(cycles) :
          (Len(cycles') = Len(cycles) /\ cycles'[i].pc # cycles[i].pc) =>
            <<cycles[i].pc, cycles'[i].pc>> \in
              {<<"delay", "capture">>, <<"capture", "measure">>,
               <<"measure", "recognize">>}]_vars
  /\ [][(s'.ocrResult # s.ocrResult /\ s'.ocrResult # NoResult) =>
          \E i \in 1..Len(cycles) :
            /\ cycles[i].pc = "recognize"
            /\ cycles' = RemoveAt(cycles, i)]_vars

\* A call has gone through capture and probe and its result with text has
\* just been stored.
C23_Witness ==
  /\ ev.kind = "recognized"
  /\ s.pageImageUri
  /\ s.imageSize.width > 0
  /\ s.ocrResult = TextResult(ev.page)

\* ------------------------------------------------ selection engine claims
\* A stroke of at least two points has just been drawn and handled.
LassoDrawn == ev.kind = "stroke" /\ HasPoints(ev.path)

TripleBefore(a, b) ==
  \/ a.blockIndex < b.blockIndex
  \/ a.blockIndex = b.blockIndex /\ a.lineIndex < b.lineIndex
  \/ /\ a.blockIndex = b.blockIndex
     /\ a.lineIndex = b.lineIndex
     /\ a.elementIndex < b.elementIndex

InReadingOrder(q) ==
  \A i, j \in 1..Len(q) : i < j => TripleBefore(q[i], q[j])

ReversedStroke(points) ==
  [i \in 1..Len(points) |-> points[Len(points) + 1 - i]]

\* C24: after a lasso was drawn the highlighted words are listed in
\* ascending (blockIndex, lineIndex, elementIndex) order, the selected text
\* the engine sets is the texts of those words joined in that order, and
\* the same lasso drawn backwards gives the same list and the same text.
C24_SelectionInReadingOrder ==
  LassoDrawn =>
    LET blocks == Blocks(s.ocrResult)
        texts == SelectedTexts(blocks, s.intersectingElements)
        backwards == StrokeDrawn(s, ReversedStroke(parseSvgPath(ev.path)))
        back == EngineOutput(s.viewLayout, s.imageSize, s.ocrResult,
                             backwards.currentPath)
    IN /\ InReadingOrder(s.intersectingElements)
       /\ back.elements = s.intersectingElements
       /\ texts # <<>> =>
            /\ s.selectedText = Text(JoinSpace(texts))
            /\ back.text = s.selectedText

\* A lasso drawn from right to left selected words of two blocks.
C24_Witness ==
  /\ LassoDrawn
  /\ parseSvgPath(ev.path)[1].x > parseSvgPath(ev.path)[Len(parseSvgPath(ev.path))].x
  /\ Len(s.intersectingElements) >= 3
  /\ s.intersectingElements[1].blockIndex
       # s.intersectingElements[Len(s.intersectingElements)].blockIndex

MinOf(S) == CHOOSE m \in S : \A x \in S : m <= x
MaxOf(S) == CHOOSE m \in S : \A x \in S : m >= x

\* The axis-aligned bounding box of a lasso's points
LassoBox(points) ==
  [minX |-> MinOf({points[i].x : i \in 1..Len(points)}),
   maxX |-> MaxOf({points[i].x : i \in 1..Len(points)}),
   minY |-> MinOf({points[i].y : i \in 1..Len(points)}),
   maxY |-> MaxOf({points[i].y : i \in 1..Len(points)})]

\* The words of a result, as (blockIndex, lineIndex, elementIndex) triples
WordsOf(blocks) ==
  UNION {UNION {{[blockIndex |-> b, lineIndex |-> l, elementIndex |-> e] :
                   e \in 1..Len(blocks[b].lines[l].elements)} :
                l \in 1..Len(blocks[b].lines)} :
         b \in 1..Len(blocks)}

\* The mapped box of a word, as the coordinate mapper gives it
MappedWord(view, image, blocks, w) ==
  LET f == blocks[w.blockIndex].lines[w.lineIndex].elements[w.elementIndex].frame
  IN mapCoordinates(view, image, FrameX(f), FrameY(f),
                    FrameWidth(f), FrameHeight(f))

\* Areas in units of 1 / (denX * denY)
MappedArea(m) == m.width * m.height
IntersectionArea(m, box) ==
  LET w == Min2(box.maxX * m.denX, m.x + m.width) - Max2(box.minX * m.denX, m.x)
      h == Min2(box.maxY * m.denY, m.y + m.height) - Max2(box.minY * m.denY, m.y)
  IN IF w < 0 \/ h < 0 THEN 0 ELSE w * h

MeetsThreshold(m, box) == 100 * IntersectionArea(m, box) >= 40 * MappedArea(m)

IsHighlighted(t, w) ==
  \E i \in 1..Len(t.intersectingElements) : t.intersectingElements[i] = w

\* C25 as stated: after a lasso was drawn a word is highlighted if and only
\* if 100 x area(mapped box intersected with the lasso's bounding box) is at
\* least 40 x area(mapped box).
C25_ThresholdRule ==
  LassoDrawn =>
    \A w \in WordsOf(Blocks(s.ocrResult)) :
      IsHighlighted(s, w) <=>
        MeetsThreshold(MappedWord(s.viewLayout, s.imageSize,
                                  Blocks(s.ocrResult), w),
                       LassoBox(parseSvgPath(ev.path)))

\* C25 amended: the rule holds for every word whose mapped box has a
\* positive area (so a word at exactly 40% is highlighted and one below is
\* not), and a word whose mapped box has no area is never highlighted.
C25_ThresholdRulePositiveArea ==
  LassoDrawn =>
    \A w \in WordsOf(Blocks(s.ocrResult)) :
      LET m == MappedWord(s.viewLayout, s.imageSize, Blocks(s.ocrResult), w)
      IN IsHighlighted(s, w) <=>
           /\ MappedArea(m) > 0
           /\ MeetsThreshold(m, LassoBox(parseSvgPath(ev.path)))

\* A lasso covers exactly 40% of a word that is not wholly inside it, and
\* the word is highlighted.
C25_Witness ==
  /\ LassoDrawn
  /\ \E w \in WordsOf(Blocks(s.ocrResult)) :
       LET m == MappedWord(s.viewLayout, s.imageSize, Blocks(s.ocrResult), w)
           box == LassoBox(parseSvgPath(ev.path))
       IN /\ MappedArea(m) > 0
          /\ 100 * IntersectionArea(m, box) = 40 * MappedArea(m)
          /\ IsHighlighted(s, w)

\* C26: the selection depends on the lasso only through its bounding box:
\* whenever a lasso is drawn, any other stroke of at least two points with
\* the same bounding box, drawn in the same state, gives the same
\* highlighted words and the same selected text.
C26_OnlyTheBoundingBoxCounts ==
  [][(ev'.kind = "stroke" /\ HasPoints(ev'.path)) =>
       \A stroke \in EngineStrokes :
         (Len(stroke) >= 2
          /\ LassoBox(stroke) = LassoBox(parseSvgPath(ev'.path)))
         => Selection(handleTouchEnd(StrokeDrawn(s, stroke))) = Selection(s')]_vars

\* A three-point lasso selected words, and a two-point stroke with other
\* points has its bounding box.
C26_Witness ==
  /\ LassoDrawn
  /\ Len(parseSvgPath(ev.path)) = 3
  /\ s.intersectingElements # <<>>
  /\ s.selectedText # NoText
  /\ \E stroke \in EngineStrokes :
       /\ Len(stroke) = 2
       /\ LassoBox(stroke) = LassoBox(parseSvgPath(ev.path))

\* The picture of the end-to-end scenario at scale 1
ScenarioAtScaleOne ==
  /\ s.ocrResult = TextResult(1)
  /\ s.viewLayout = s.imageSize
  /\ Blocks(s.ocrResult) =
       << [lines |-> << [elements |->
            << Word("Hello", Frame(0, 0, 100, 20)),
               Word("World", Frame(200, 0, 100, 20)) >>] >>] >>

\* C27: with the words "Hello" at {0,0,100,20} and "World" at {200,0,100,20}
\* in one line of one block and the view as large as the picture, a lasso
\* with bounding box {0,0,100,20} gives the selected text "Hello" and a
\* lasso with bounding box {0,0,300,20} gives "Hello World".
C27_HelloWorldScenario ==
  (LassoDrawn /\ ScenarioAtScaleOne) =>
    LET box == LassoBox(parseSvgPath(ev.path))
    IN /\ box = [minX |-> 0, maxX |-> 100, minY |-> 0, maxY |-> 20]
            => s.selectedText = Text("Hello")
       /\ box = [minX |-> 0, maxX |-> 300, minY |-> 0, maxY |-> 20]
            => s.selectedText = Text("Hello World")

\* The lasso around both words was drawn in the scenario.
C27_Witness ==
  /\ LassoDrawn
  /\ ScenarioAtScaleOne
  /\ LassoBox(parseSvgPath(ev.path)) =
       [minX |-> 0, maxX |-> 300, minY |-> 0, maxY |-> 20]
  /\ Len(s.intersectingElements) = 2

\* Rectangles in image pixel space given to the mapper
MapperRects ==
  {[x |-> x, y |-> y, width |-> w, height |-> h] :
     x \in {0, 150, 200}, y \in {0, 10}, w \in {0, 100}, h \in {10, 20}}

\* C28: with viewWidth = 2 x imageWidth and viewHeight = imageHeight every
\* rectangle {x, y, width, height} maps to {2x, y, 2 x width, height}; and
\* for any two layouts the X outputs are equal when viewWidth/imageWidth is
\* equal, the Y outputs when viewHeight/imageHeight is equal.
C28_ScaleIndependence ==
  \A r \in MapperRects :
    LET m == mapCoordinates(s.viewLayout, s.imageSize,
                            r.x, r.y, r.width, r.height)
    IN /\ (/\ s.viewLayout.width = 2 * s.imageSize.width
           /\ s.viewLayout.height = s.imageSize.height)
          => /\ m.x = 2 * r.x * m.denX
             /\ m.width = 2 * r.width * m.denX
             /\ m.y = r.y * m.denY
             /\ m.height = r.height * m.denY
       /\ \A v \in EngineViews, im \in EngineImages :
            LET n == mapCoordinates(v, im, r.x, r.y, r.width, r.height)
            IN /\ v.width * s.imageSize.width = s.viewLayout.width * im.width
                  => /\ n.x * m.denX = m.x * n.denX
                     /\ n.width * m.denX = m.width * n.denX
               /\ v.height * s.imageSize.height = s.viewLayout.height * im.height
                  => /\ n.y * m.denY = m.y * n.denY
                     /\ n.height * m.denY = m.height * n.denY

\* In a view twice as wide as the picture and as high, a lasso selected a
\* word through its mapped box.
C28_Witness ==
  /\ LassoDrawn
  /\ s.viewLayout.width = 2 * s.imageSize.width
  /\ s.viewLayout.height = s.imageSize.height
  /\ s.intersectingElements # <<>>

\* C29: a stroke that parses to fewer than 2 points leaves the highlighted
\* words and the selected text exactly as they were before it.
C29_TooFewPointsChangesNothing ==
  [][(ev'.kind = "stroke" /\ ~HasPoints(ev'.path)) =>
       Selection(s') = Selection(s)]_vars

\* A one-point stroke was made while words were highlighted and a text was
\* selected.
C29_Witness ==
  /\ ev.kind = "stroke"
  /\ Len(parseSvgPath(ev.path)) = 1
  /\ s.intersectingElements # <<>>
  /\ s.selectedText # NoText

\* C30: when a lasso of at least 2 points selects no word, the selected
\* text after the recompute is null.
C30_NoWordsNoText ==
  [][(ev'.kind = "stroke" /\ HasPoints(ev'.path)
      /\ s'.intersectingElements = <<>>) => s'.selectedText = NoText]_vars

\* The texts of a list of words of a result joined for display: a word
\* without text adds nothing, any two texts are one space apart.
RECURSIVE TextOfWords(_, _)
TextOfWords(blocks, elements) ==
  IF elements = <<>> THEN ""
  ELSE LET first == ElementText(blocks, Head(elements))
           rest == TextOfWords(blocks, Tail(elements))
       IN IF first = "" THEN rest
          ELSE IF rest = "" THEN first
          ELSE first \o " " \o rest

\* C31: after a lasso was drawn that selects at least one word with text,
\* the selected text is the texts of the highlighted words that have text,
\* in the order of the highlighted list, one space between neighbours; a
\* highlighted word without text adds neither text nor a separator.
C31_EmptyTextsLeaveNoGap ==
  (LassoDrawn /\ TextOfWords(Blocks(s.ocrResult), s.intersectingElements) # "")
    => s.selectedText =
         Text(TextOfWords(Blocks(s.ocrResult), s.intersectingElements))

\* A lasso selected a word without text between two words with text.
C31_Witness ==
  /\ LassoDrawn
  /\ Len(s.intersectingElements) = 3
  /\ ElementText(Blocks(s.ocrResult), s.intersectingElements[2]) = ""
  /\ s.selectedText = Text("Foo Bar")

\* ------------------------------------------------------ path parser claims
\* The path strings the screen holds: the stroke in progress and the lassos.
PathStrings ==
  {s.currentPath} \cup {s.paths[i].path : i \in 1..Len(s.paths)}

\* A command letter followed by two numbers starts at token i.
WellFormedAt(parts, i) ==
  /\ parts[i].t \in {"M", "L"}
  /\ i + 2 <= Len(parts)
  /\ parts[i + 1].t = "num"
  /\ parts[i + 2].t = "num"

\* The string is made of well-formed commands only.
WellFormedString(parts) ==
  /\ Len(parts) % 3 = 0
  /\ \A k \in 1..(Len(parts) \div 3) : WellFormedAt(parts, 3 * k - 2)

\* The points of the well-formed commands of a string, in input order
CommandPoints(parts) ==
  LET at == SelectSeq([i \in 1..Len(parts) |-> i],
                      LAMBDA i : WellFormedAt(parts, i))
  IN [k \in 1..Len(at) |-> [x |-> parts[at[k] + 1].v, y |-> parts[at[k] + 2].v]]

\* C32: for a path string made only of well-formed M x y / L x y commands
\* the parser's output is the (x, y) pairs of the commands in input order,
\* one point per command, repeated points included.
C32_ParserKeepsEveryPoint ==
  \A p \in PathStrings :
    WellFormedString(p) =>
      parseSvgPath(p) = [k \in 1..(Len(p) \div 3) |->
                           [x |-> p[3 * k - 1].v, y |-> p[3 * k].v]]

\* A stroke of three well-formed commands, the first two with the same
\* point, has ended and is the lasso of the page.
C32_Witness ==
  /\ ev.kind = "strokeEnd"
  /\ LET p == LassoOf(s.paths, s.currentPage)
     IN /\ WellFormedString(p)
        /\ Len(parseSvgPath(p)) = 3
        /\ parseSvgPath(p)[1] = parseSvgPath(p)[2]
        /\ parseSvgPath(p)[2] # parseSvgPath(p)[3]

Canonical(f) ==
  [x |-> FrameX(f), y |-> FrameY(f),
   width |-> FrameWidth(f), height |-> FrameHeight(f)]

\* The two encodings of the rectangle r
BothEncodings(r) ==
  {Frame(r.x, r.y, r.width, r.height),
   FrameCorners(r.x, r.y, r.x + r.width, r.y + r.height)}

\* C34: a rectangle given as left/top/right/bottom and the same rectangle
\* given as left/top/width/height are read as the same {x, y, width,
\* height}, that of the rectangle, also with left = 0 or top = 0; this holds
\* for the sample rectangles and for the frame of every word of the stored
\* result.
C34_FrameEncodingsAgree ==
  /\ \A r \in MapperRects : \A f \in BothEncodings(r) : Canonical(f) = r
  /\ \A w \in WordsOf(Blocks(s.ocrResult)) :
       LET r == Canonical(Blocks(s.ocrResult)[w.blockIndex].lines[w.lineIndex]
                            .elements[w.elementIndex].frame)
       IN \A f \in BothEncodings(r) : Canonical(f) = r

\* A lasso selected a word whose frame is given by its corners.
C34_Witness ==
  /\ LassoDrawn
  /\ \E i \in 1..Len(s.intersectingElements) :
       LET w == s.intersectingElements[i]
           f == Blocks(s.ocrResult)[w.blockIndex].lines[w.lineIndex]
                  .elements[w.elementIndex].frame
       IN f.width = 0 /\ f.right > f.left /\ f.left > 0

\* ------------------------------------------------------ mapper guard
\* The image sizes mapCoordinates is called with when findIntersectingBlocks
\* of render (or closure) c is called on pathString: none when it returns
\* at line 235 or 279 or finds no word with a frame, else the image size of
\* that render.
MapperReads(c, pathString) ==
  IF c.ocrResult = NoResult \/ Len(parseSvgPath(pathString)) < 2 THEN {}
  ELSE IF \E w \in WordsOf(Blocks(c.ocrResult)) :
            Blocks(c.ocrResult)[w.blockIndex].lines[w.lineIndex]
              .elements[w.elementIndex].hasFrame
       THEN {c.imageSize}
       ELSE {}

NonZero(size) == size.width # 0 /\ size.height # 0

\* C35: the mapper never reads a zero image width or height: not in the
\* recompute a touch end makes in this state (lines 177-179), not in the
\* recompute a call in flight makes when it ends (lines 404-407, with the
\* values of the render that started it), not in the rendering of the
\* highlighted words (lines 604-621).
C35_MapperNeverReadsZeroImage ==
  /\ (Finalizes(s) /\ s.ocrComplete) =>
       \A size \in MapperReads(s, s.currentPath) : NonZero(size)
  /\ \A i \in 1..Len(cycles) :
       cycles[i].cl.path # EmptyPath =>
         \A size \in MapperReads(cycles[i].cl, cycles[i].cl.path) : NonZero(size)
  /\ PressableElements(s) # {} => NonZero(s.imageSize)

\* A call in flight will recompute the selection when it ends, with the
\* result and the measured image size of the render that started it.
C35_Witness ==
  /\ Len(cycles) = 1
  /\ cycles[1].pc = "recognize"
  /\ MapperReads(cycles[1].cl, cycles[1].cl.path) # {}
  /\ NonZero(cycles[1].cl.imageSize)

\* C36: a failed call is not restarted automatically: the effect that runs
\* after the commit of the failure (the only step that needs no user or
\* renderer event) starts no call.
C36_FailedCycleNotRestarted ==
  [][(ev.kind = "failed" /\ RunEffect) => cycles' = cycles]_vars

\* C37: the page a successful call adds to analyzedPages is the page whose
\* picture was captured and recognized: the result stored with it is the
\* result of that page.
C37_AnalyzedPageIsCapturedPage ==
  (ev.kind = "recognized" /\ Includes(s.analyzedPages, ev.page))
    => s.ocrResult = TextResult(ev.page)

\* The words of a set, listed in reading order
InOrder(S) ==
  CHOOSE q \in [1..Cardinality(S) -> S] :
    InReadingOrder(q) /\ \A w \in S : Includes(q, w)

\* The texts a selection of words of a result can give
TextsOf(blocks) ==
  {Text(TextOfWords(blocks, InOrder(S))) : S \in SUBSET WordsOf(blocks)}

\* C38: every triple of the highlighted list indexes a word of the stored
\* result, and a selected text is the text of a selection of words of the
\* stored result.
C38_HighlightsIndexStoredResult ==
  /\ \A i \in 1..Len(s.intersectingElements) :
       s.intersectingElements[i] \in WordsOf(Blocks(s.ocrResult))
  /\ s.selectedText # NoText => s.selectedText \in TextsOf(Blocks(s.ocrResult))

C40_StoredPageBelongsToStoredPath ==
  store.path = OtherPath => store.page = opened.page

====
